---- MODULE Spec2Model ----
(***************************************************************************)
(* Model of the unleash-mcp server: the logger (src/context.ts), the       *)
(* startup sequence (src/index.ts, config loader), the progress emitter    *)
(* (src/utils/streaming.ts) and the two tool implementations               *)
(* get_flag_state and toggle_flag_environment (src/tools).                 *)
(*                                                                         *)
(* JavaScript values are encoded as strings: "undefined" is the value      *)
(* undefined (an absent field or environment variable), "" the empty       *)
(* string, "#42" a number where a string or boolean is expected, "0" the   *)
(* number zero used as a progress token.                                   *)
(***************************************************************************)
EXTENDS Integers, Sequences, FiniteSets, TLC

\* ------------------------------------------------------------------ bounds
MaxLogCalls == 3        \* direct logger calls made by the logger driver
MaxEmitCalls == 2       \* awaited emitter calls made by the emitter driver
MaxInvocations == 2     \* tool invocations served one after the other
MaxReads == 3           \* resource reads served one after the other
MaxWrites == 3          \* writes to stdout and stderr
MaxEnableCalls == 2     \* calls of enableStdioLogging
MaxParked == 1          \* tool invocations suspended while another one runs

\* ----------------------------------------------------------- value helpers
Undefined == "undefined"

\* JavaScript truthiness of a string-or-undefined value: if (x) { ... }
Truthy(v) == v \notin {Undefined, ""}

\* ------------------------------------------------------------------ state
VARIABLES
    env,          \* process.env and argv as read at startup
    pc,           \* position of main(): "init", "connecting", "running", "exited"
    exitCode,     \* process exit code, -1 while the process runs
    config,       \* result of loadConfig(), Undefined-filled before it ran
    logger,       \* the logger created by createLogger(), or NoLogger
    registered,   \* sequence of tool names registered with the MCP server
    fileWritable, \* whether fs.appendFileSync on the log file succeeds right now
    io,           \* lines written so far to the log file, stderr and stdout
    logCalls,     \* history of the direct logger calls of the logger driver
    emit,         \* the emitter call in progress (emitter driver)
    emitCalls,    \* history of the emitter calls started, with their status
    sent,         \* every server.notification() call made so far, in order
    cur,          \* the tool invocation whose code runs next, or last finished
    invCount,     \* number of tool invocations started
    startup,      \* the steps main() has executed, in order
    toolDefs,     \* names of the tool definitions main() registers, in order
    listed,       \* the answer to the last tools/list request, <<>> before any
    res,          \* the resource read in progress and the number of reads begun
    stdio,        \* stdout and stderr writers, patched or not, and what they wrote
    parked        \* the other tool invocations in flight, suspended at an await

\* the variables no tool, logger or emitter step touches
frame == <<toolDefs, listed, res, stdio, parked>>

vars == <<env, pc, exitCode, config, logger, registered, fileWritable, io,
          logCalls, emit, emitCalls, sent, cur, invCount, startup, frame>>

\* ----------------------------------------------------------------- logger
\* context.ts:37  const levels = ['debug', 'info', 'warn', 'error']
levels == <<"debug", "info", "warn", "error">>

\* Array.prototype.indexOf on levels: zero-based index, -1 when absent
indexOf(level) ==
    IF \E i \in 1..Len(levels) : levels[i] = level
    THEN (CHOOSE i \in 1..Len(levels) : levels[i] = level) - 1
    ELSE -1

NoLogger == [currentLevelIndex |-> -2, appLogFile |-> Undefined]

\* context.ts:36-39  the closure state of createLogger(logLevel)
createLogger(logLevel) ==
    [currentLevelIndex |-> indexOf(logLevel), appLogFile |-> env.APP_LOG_FILE]

shouldLog_Strict(lg, level) == indexOf(level) > lg.currentLevelIndex

\* context.ts:41-44
shouldLog(lg, level) == indexOf(level) >= lg.currentLevelIndex

writeLog_Stdout(lg, prefix, message, writable, out) ==
    LET line == [prefix |-> prefix, message |-> message] IN
    IF Truthy(lg.appLogFile) /\ writable
    THEN [out EXCEPT !.file = Append(@, line)]
    ELSE [out EXCEPT !.stdout = Append(@, line)]

writeLog_Both(lg, prefix, message, writable, out) ==
    LET line == [prefix |-> prefix, message |-> message] IN
    IF Truthy(lg.appLogFile) /\ writable
    THEN [out EXCEPT !.file = Append(@, line), !.stderr = Append(@, line)]
    ELSE [out EXCEPT !.stderr = Append(@, line)]

\* context.ts:47-58  append to the file when one is configured and the append
\* succeeds; otherwise (no file, or appendFileSync threw) console.error
writeLog(lg, prefix, message, writable, out) ==
    LET line == [prefix |-> prefix, message |-> message] IN
    IF Truthy(lg.appLogFile) /\ writable
    THEN [out EXCEPT !.file = Append(@, line)]
    ELSE [out EXCEPT !.stderr = Append(@, line)]

\* context.ts:61-65
loggerDebug(lg, message, writable, out) ==
    IF shouldLog(lg, "debug") THEN writeLog(lg, "[DEBUG]", message, writable, out) ELSE out

\* context.ts:66-70
loggerInfo(lg, message, writable, out) ==
    IF shouldLog(lg, "info") THEN writeLog(lg, "[INFO]", message, writable, out) ELSE out

\* context.ts:71-75
loggerWarn(lg, message, writable, out) ==
    IF shouldLog(lg, "warn") THEN writeLog(lg, "[WARN]", message, writable, out) ELSE out

\* context.ts:76-80
loggerError(lg, message, writable, out) ==
    IF shouldLog(lg, "error") THEN writeLog(lg, "[ERROR]", message, writable, out) ELSE out

\* the method of the Logger object selected by name
loggerCall(lg, level, message, writable, out) ==
    CASE level = "debug" -> loggerDebug(lg, message, writable, out)
      [] level = "info"  -> loggerInfo(lg, message, writable, out)
      [] level = "warn"  -> loggerWarn(lg, message, writable, out)
      [] level = "error" -> loggerError(lg, message, writable, out)

\* number of lines in all three streams
LinesIn(out) == Len(out.file) + Len(out.stderr) + Len(out.stdout)

\* ---------------------------------------------------------------- startup
\* config loader: parseCliFlags, default log level 'info' without --log-level
parseCliFlags == IF env.logLevelFlag = Undefined THEN "info" ELSE env.logLevelFlag

\* config loader: configSchema; the set of violated paths
configViolations ==
    (IF env.UNLEASH_BASE_URL # "https://unleash" THEN {"unleash.baseUrl"} ELSE {})
    \cup (IF env.UNLEASH_PAT \in {Undefined, ""} THEN {"unleash.pat"} ELSE {})
    \cup (IF indexOf(parseCliFlags) = -1 THEN {"server.logLevel"} ELSE {})

NoConfig == [defaultProject |-> Undefined, logLevel |-> Undefined]

\* config loader: loadConfig, the parsed configuration (fields the model uses)
loadConfig == [defaultProject |-> env.UNLEASH_DEFAULT_PROJECT, logLevel |-> parseCliFlags]

tools_WithoutCreateFlag ==
    <<"evaluate_change", "detect_flag", "wrap_change", "cleanup_flag",
      "set_flag_rollout", "get_flag_state", "toggle_flag_environment",
      "remove_flag_strategy">>

\* index.ts:113-123
tools == <<"create_flag", "evaluate_change", "detect_flag", "wrap_change", "cleanup_flag",
           "set_flag_rollout", "get_flag_state", "toggle_flag_environment",
           "remove_flag_strategy">>

\* index.ts:61-67  the banner lines, in order
BannerMessages(cfg) ==
    <<"Starting", "BaseURL", "DryRun">>
    \o (IF Truthy(cfg.defaultProject) THEN <<"DefaultProject">> ELSE <<>>)

RECURSIVE LogInfoAll(_, _, _, _)
LogInfoAll(lg, msgs, writable, out) ==
    IF msgs = <<>> THEN out
    ELSE LogInfoAll(lg, Tail(msgs), writable, loggerInfo(lg, Head(msgs), writable, out))

\* McpServer.registerTool of the MCP SDK (section 4.2, register): a name
\* that is already registered is a conflict, the call throws
registerTool(reg, name) ==
    IF \E i \in 1..Len(reg) : reg[i] = name
    THEN [registered |-> reg, threw |-> TRUE]
    ELSE [registered |-> Append(reg, name), threw |-> FALSE]

RECURSIVE registerTools_IgnoreConflict(_, _)
registerTools_IgnoreConflict(defs, reg) ==
    IF defs = <<>> THEN [registered |-> reg, threw |-> FALSE]
    ELSE registerTools_IgnoreConflict(Tail(defs), registerTool(reg, Head(defs)).registered)

\* index.ts:125-135  tools.forEach(tool => server.registerTool(...)): in
\* order, a throw of registerTool ends the loop and leaves main()
RECURSIVE registerTools(_, _)
registerTools(defs, reg) ==
    IF defs = <<>> THEN [registered |-> reg, threw |-> FALSE]
    ELSE LET r == registerTool(reg, Head(defs)) IN
         IF r.threw THEN r ELSE registerTools(Tail(defs), r.registered)

mainSteps_RegisterBeforeConfig ==
    <<"createServer", "registerTools", "registerResources", "loadConfig", "createLogger",
      "banner", "connect">>

\* index.ts:58-140  the statements of main() up to its await, in order
mainSteps ==
    <<"loadConfig", "createLogger", "banner", "createServer", "registerTools",
      "registerResources", "connect">>

\* the effect of one statement of main() on the startup state st
mainStep(step, st) ==
    LET t == [st EXCEPT !.startup = Append(@, step)] IN
    CASE step = "loadConfig" ->
            IF configViolations # {} THEN [t EXCEPT !.threw = "ConfigInvalid"]
            ELSE [t EXCEPT !.config = loadConfig]
      [] step = "createLogger" ->
            [t EXCEPT !.logger = createLogger(st.config.logLevel)]
      [] step = "banner" ->
            [t EXCEPT !.io = LogInfoAll(st.logger, BannerMessages(st.config),
                                        fileWritable, st.io)]
      [] step = "registerTools" ->
            LET r == registerTools(toolDefs, st.registered) IN
            [t EXCEPT !.registered = r.registered,
                      !.threw = IF r.threw THEN "RegistrationConflict" ELSE st.threw]
      [] OTHER -> t

\* the statements run in order until one throws
RECURSIVE runMain(_, _)
runMain(steps, st) ==
    IF steps = <<>> \/ st.threw # "no" THEN st
    ELSE runMain(Tail(steps), mainStep(Head(steps), st))

\* index.ts:56-140 and 146-149: main() runs synchronously up to the await of
\* server.connect; a throw is caught by main().catch, which writes the fatal
\* message with console.error and exits with code 1
Main ==
    /\ pc = "init"
    /\ LET end == runMain(mainSteps,
                     [config |-> config, logger |-> NoLogger, io |-> io,
                      registered |-> registered, startup |-> startup, threw |-> "no"])
       IN /\ config' = end.config
          /\ logger' = end.logger
          /\ registered' = end.registered
          /\ startup' = end.startup
          /\ IF end.threw # "no"
             THEN /\ pc' = "exited"
                  /\ exitCode' = 1
                  /\ io' = [end.io EXCEPT
                              !.stderr = Append(@, [prefix |-> "FATAL", message |-> end.threw])]
             ELSE /\ pc' = "connecting"
                  /\ io' = end.io
                  /\ UNCHANGED exitCode
    /\ UNCHANGED <<frame, env, fileWritable, logCalls, emit, emitCalls, sent, cur, invCount>>

\* index.ts:140-142: server.connect resolved, the final banner line
MainConnected ==
    /\ pc = "connecting"
    /\ pc' = "running"
    /\ io' = loggerInfo(logger, "Started", fileWritable, io)
    /\ UNCHANGED <<startup, frame, env, exitCode, config, logger, registered, fileWritable,
                   logCalls, emit, emitCalls, sent, cur, invCount>>

\* the environment: the log file becomes unwritable or writable again
EnvFsChange ==
    /\ Truthy(env.APP_LOG_FILE)
    /\ pc \in {"init", "connecting", "running"}
    /\ fileWritable' = ~fileWritable
    /\ UNCHANGED <<startup, frame, env, pc, exitCode, config, logger, registered, io,
                   logCalls, emit, emitCalls, sent, cur, invCount>>

\* a direct call of one logger method (any component holding the context)
LoggerCall(level, message) ==
    /\ pc \in {"connecting", "running"}
    /\ Len(logCalls) < MaxLogCalls
    /\ io' = loggerCall(logger, level, message, fileWritable, io)
    /\ logCalls' = Append(logCalls,
          [level |-> level,
           file |-> Len(io'.file) - Len(io.file),
           stderr |-> Len(io'.stderr) - Len(io.stderr),
           stdout |-> Len(io'.stdout) - Len(io.stdout),
           writable |-> fileWritable])
    /\ UNCHANGED <<startup, frame, env, pc, exitCode, config, logger, registered, fileWritable,
                   emit, emitCalls, sent, cur, invCount>>


\* ---------------------------------------------------------------- emitter
\* streaming.ts:8-9 and 43-44: notifyProgress takes ONE parameter, the MCP
\* server, sends nothing itself and returns the emitter closure
notifyProgress(mcpServer) == [kind |-> "function", server |-> mcpServer]

emitterReturnsEarly_Never(progressToken) == FALSE

\* streaming.ts:16-18  if (progressToken === undefined) return;
emitterReturnsEarly(progressToken) == progressToken = Undefined

\* streaming.ts:21-28
progressNotification(progressToken, progress, total) ==
    [method |-> "notifications/progress", progressToken |-> progressToken,
     progress |-> progress, total |-> total, data |-> Undefined]

\* streaming.ts:31-38
messageNotification(message) ==
    [method |-> "notifications/message", progressToken |-> Undefined,
     progress |-> -1, total |-> -1, data |-> message]

emitterSends_MessageFirst(progressToken, progress, total, message) ==
    <<messageNotification(message), progressNotification(progressToken, progress, total)>>

\* streaming.ts:20-38  the notifications the try block sends, in order, each
\* awaited before the next
emitterSends(progressToken, progress, total, message) ==
    <<progressNotification(progressToken, progress, total), messageNotification(message)>>

CatchNotificationError_Rethrow(failed) == "rejected"

\* streaming.ts:39-42  catch (_error) {}: the rejection of either send is
\* swallowed and the emitter's promise resolves
CatchNotificationError(failed) == "resolved"

\* the emitter is called and runs up to its first await
EmitCall(progressToken, progress, total, message) ==
    /\ pc = "running"
    /\ emit.pc = "idle"
    /\ Len(emitCalls) < MaxEmitCalls
    /\ LET n == Len(emitCalls) + 1
           call == [progressToken |-> progressToken, progress |-> progress,
                    total |-> total, message |-> message]
       IN IF emitterReturnsEarly(progressToken)
          THEN /\ emitCalls' = Append(emitCalls, [call |-> call, status |-> "resolved"])
               /\ UNCHANGED <<emit, sent>>
          ELSE /\ emitCalls' = Append(emitCalls, [call |-> call, status |-> "pending"])
               /\ sent' = Append(sent,
                      [call |-> n, status |-> "inflight",
                       notification |-> emitterSends(progressToken, progress, total, message)[1]])
               /\ emit' = [pc |-> "await1"]
    /\ UNCHANGED <<startup, frame, env, pc, exitCode, config, logger, registered, fileWritable, io,
                   logCalls, cur, invCount>>

\* the awaited server.notification() settles: delivered, or rejected
EmitSettle(delivered) ==
    /\ emit.pc \in {"await1", "await2"}
    /\ LET n == Len(emitCalls)
           c == emitCalls[n].call
           settled == [sent EXCEPT ![Len(sent)].status =
                          IF delivered THEN "delivered" ELSE "failed"]
       IN IF ~delivered
          THEN /\ sent' = settled
               /\ emitCalls' = [emitCalls EXCEPT ![n].status = CatchNotificationError(TRUE)]
               /\ emit' = [pc |-> "idle"]
          ELSE IF emit.pc = "await1"
          THEN /\ sent' = Append(settled,
                      [call |-> n, status |-> "inflight",
                       notification |->
                          emitterSends(c.progressToken, c.progress, c.total, c.message)[2]])
               /\ emit' = [pc |-> "await2"]
               /\ UNCHANGED emitCalls
          ELSE /\ sent' = settled
               /\ emitCalls' = [emitCalls EXCEPT ![n].status = "resolved"]
               /\ emit' = [pc |-> "idle"]
    /\ UNCHANGED <<startup, frame, env, pc, exitCode, config, logger, registered, fileWritable, io,
                   logCalls, cur, invCount>>


\* ------------------------------------------------------------ tool helpers
\* zod: z.string(), optionally .min(1), optionally .optional(); the issues
\* raised for the value v at the given path
zString(path, v, min1, optional) ==
    IF v = Undefined
    THEN IF optional THEN {} ELSE {[path |-> path, issue |-> "required"]}
    ELSE IF v = "#42" THEN {[path |-> path, issue |-> "invalid_type"]}
    ELSE IF min1 /\ v = "" THEN {[path |-> path, issue |-> "too_small"]}
    ELSE {}

\* zod: z.boolean()
zBoolean(path, v) ==
    IF v = Undefined THEN {[path |-> path, issue |-> "required"]}
    ELSE IF v \notin {"true", "false"} THEN {[path |-> path, issue |-> "invalid_type"]}
    ELSE {}

getFlagStateSchema_FeatureNameOptional(args) ==
    IF ~args.isObject THEN {[path |-> "", issue |-> "invalid_type"]}
    ELSE zString("projectId", args.projectId, FALSE, TRUE)
         \cup zString("featureName", args.featureName, TRUE, TRUE)
         \cup zString("environment", args.environment, FALSE, TRUE)

\* getFlagState.ts:8-17; parse collects the issues of every field
getFlagStateSchema(args) ==
    IF ~args.isObject THEN {[path |-> "", issue |-> "invalid_type"]}
    ELSE zString("projectId", args.projectId, FALSE, TRUE)
         \cup zString("featureName", args.featureName, TRUE, FALSE)
         \cup zString("environment", args.environment, FALSE, TRUE)

\* toggleFlagEnvironment.ts:7-17
toggleFlagEnvironmentSchema(args) ==
    IF ~args.isObject THEN {[path |-> "", issue |-> "invalid_type"]}
    ELSE zString("projectId", args.projectId, FALSE, TRUE)
         \cup zString("featureName", args.featureName, TRUE, FALSE)
         \cup zString("environment", args.environment, TRUE, FALSE)
         \cup zBoolean("enabled", args.enabled)

\* String.prototype.toLowerCase on the environment names of the model
toLowerCase(str) == IF str = "DEV" THEN "dev" ELSE str

\* the values a handler can catch
ZodError(issues) == [kind |-> "ZodError", issues |-> issues, detail |-> Undefined]
JsError(kind, detail) == [kind |-> kind, issues |-> {}, detail |-> detail]

ensureProjectId_AcceptsEmpty(providedProjectId, defaultProjectId) ==
    IF providedProjectId # Undefined THEN [threw |-> FALSE, value |-> providedProjectId]
    ELSE IF defaultProjectId # Undefined THEN [threw |-> FALSE, value |-> defaultProjectId]
    ELSE [threw |-> TRUE, value |-> Undefined]

ensureProjectId_DefaultFirst(providedProjectId, defaultProjectId) ==
    IF Truthy(defaultProjectId) THEN [threw |-> FALSE, value |-> defaultProjectId]
    ELSE IF Truthy(providedProjectId) THEN [threw |-> FALSE, value |-> providedProjectId]
    ELSE [threw |-> TRUE, value |-> Undefined]

\* context.ts:88-103
ensureProjectId(providedProjectId, defaultProjectId) ==
    IF Truthy(providedProjectId) THEN [threw |-> FALSE, value |-> providedProjectId]
    ELSE IF Truthy(defaultProjectId) THEN [threw |-> FALSE, value |-> defaultProjectId]
    ELSE [threw |-> TRUE, value |-> Undefined]

\* utils/errors normalizeError (section 4.5 of the specification): the fixed
\* taxonomy; message is the set of things the message names
normalizeError(error) ==
    CASE error.kind = "ZodError" ->
            [code |-> "InvalidInput",
             message |-> {i.path : i \in error.issues},
             hint |-> Undefined]
      [] error.kind = "Error" /\ error.detail = "ProjectIdRequired" ->
            [code |-> "MissingConfiguration",
             message |-> {"Project ID"},
             hint |-> "UNLEASH_DEFAULT_PROJECT"]
      [] error.kind = "RemoteError" ->
            [code |-> "RemoteError",
             message |-> {error.detail},
             hint |-> IF error.detail \in {"401", "403"} THEN "credentials" ELSE Undefined]
      [] OTHER ->
            [code |-> "Unknown", message |-> {error.kind}, hint |-> Undefined]

NoError == [code |-> "none", message |-> {}, hint |-> Undefined]

\* the text content of a result that is not a failure text
NoText == [prefix |-> "", message |-> {}, suffix |-> "", hint |-> Undefined]

\* context.ts:122-130: `Error: ${normalized.message}${hintSuffix}`
errorText(normalized) ==
    [prefix |-> "Error: ", message |-> normalized.message,
     suffix |-> IF Truthy(normalized.hint) THEN "\n\nHint: " ELSE "",
     hint |-> IF Truthy(normalized.hint) THEN normalized.hint ELSE Undefined]

ErrorInMessage(toolName) ==
    IF toolName = "get_flag_state" THEN "Error in get_flag_state:"
    ELSE "Error in toggle_flag_environment:"

handleToolError_LogTwice(error, toolName, writable, out) ==
    LET normalized == normalizeError(error)
        once == loggerError(logger, ErrorInMessage(toolName), writable, out) IN
    [result |-> [isError |-> TRUE, success |-> FALSE, error |-> normalized,
                 hintSuffix |-> Truthy(normalized.hint), text |-> errorText(normalized),
                 projectId |-> Undefined, environments |-> {}],
     out |-> loggerError(logger, ErrorInMessage(toolName), writable, once),
     errorCalls |-> 2]

handleToolError_NoHint(error, toolName, writable, out) ==
    LET normalized == normalizeError(error) IN
    [result |-> [isError |-> TRUE, success |-> FALSE, error |-> normalized,
                 hintSuffix |-> FALSE,
                 text |-> [prefix |-> "Error: ", message |-> normalized.message,
                           suffix |-> "", hint |-> Undefined],
                 projectId |-> Undefined, environments |-> {}],
     out |-> loggerError(logger, ErrorInMessage(toolName), writable, out),
     errorCalls |-> 1]

\* context.ts:109-137: normalize, log once at error level, build the failure
handleToolError(error, toolName, writable, out) ==
    LET normalized == normalizeError(error) IN
    [result |-> [isError |-> TRUE, success |-> FALSE, error |-> normalized,
                 hintSuffix |-> Truthy(normalized.hint), text |-> errorText(normalized),
                 projectId |-> Undefined, environments |-> {}],
     out |-> loggerError(logger, ErrorInMessage(toolName), writable, out),
     errorCalls |-> 1]

\* the call sites getFlagState.ts:39-45, 59-65 and toggleFlagEnvironment.ts:
\* 32-38, 47-53 apply notifyProgress to five arguments.  notifyProgress
\* (streaming.ts:8) binds the first and returns the emitter closure, which the
\* call site never calls; awaiting a value that is not a promise only yields.
\* The notifications such a call site sends:
callSiteNotifications(mcpServer, progressToken, progress, total, message) ==
    LET awaited == notifyProgress(mcpServer) IN
    IF awaited.kind = "function"
    THEN <<>>
    ELSE [i \in 1..2 |->
            [call |-> 0, status |-> "inflight",
             notification |-> emitterSends(progressToken, progress, total, message)[i]]]

NoResult == [isError |-> FALSE, success |-> FALSE, error |-> NoError, hintSuffix |-> FALSE,
             text |-> NoText,
             projectId |-> Undefined, environments |-> {}]

NoArgs == [isObject |-> FALSE, projectId |-> Undefined, featureName |-> Undefined,
           environment |-> Undefined, enabled |-> Undefined]

NoRemote == [kind |-> "none", environments |-> {}, status |-> Undefined]

\* what the remote client can do with a call: return a feature (with its
\* environments), return a value that is not a feature, or throw
RemoteOutcomes ==
    {[kind |-> "feature", environments |-> e, status |-> Undefined] : e \in {{}, {"dev", "prod"}}}
    \cup {[kind |-> "malformed", environments |-> {}, status |-> Undefined]}
    \cup {[kind |-> "throw", environments |-> {}, status |-> st] : st \in {"401", "404"}}

\* no error has been thrown in the invocation
NoThrown == JsError("none", Undefined)

NewInvocation(tool, args, progressToken) ==
    [pc |-> "begin", tool |-> tool, args |-> args, progressToken |-> progressToken,
     projectId |-> Undefined, remote |-> NoRemote, environments |-> {},
     outcome |-> "pending", result |-> NoResult,
     remoteCalls |-> 0, errorCalls |-> 0, errorLines |-> 0, infoCalls |-> 0,
     thrown |-> NoThrown, notifyCalls |-> <<>>, remoteProjectIds |-> <<>>]

NoInvocation == [NewInvocation("none", NoArgs, Undefined) EXCEPT !.pc = "none"]

\* number of error-level lines in all three streams
ErrorLinesIn(out) ==
    LET n(str) == Cardinality({i \in 1..Len(str) : str[i].prefix = "[ERROR]"}) IN
    n(out.file) + n(out.stderr) + n(out.stdout)

\* a throw that no catch block covers: the invocation's promise rejects
Uncaught(inv, error, toolName) ==
    /\ io' = io
    /\ cur' = [inv EXCEPT !.pc = "done", !.outcome = "threw", !.thrown = error]

\* getFlagState.ts:128-130, toggleFlagEnvironment.ts:116-118; the catch block of a tool: the invocation returns handleToolError's result
Caught(inv, error, toolName) ==
    LET h == handleToolError(error, toolName, fileWritable, io) IN
    /\ io' = h.out
    /\ cur' = [inv EXCEPT !.pc = "done", !.outcome = "returned", !.result = h.result,
                          !.thrown = error,
                          !.errorCalls = @ + h.errorCalls,
                          !.errorLines = @ + ErrorLinesIn(h.out) - ErrorLinesIn(io)]

CanBegin ==
    /\ pc = "running"
    /\ cur.pc = "none"
    /\ invCount < MaxInvocations

\* index.ts:132-133: the promise of tool.implementation settles and the
\* server answers the request; the invocation is over
Respond ==
    /\ cur.pc = "done"
    /\ cur' = NoInvocation
    /\ UNCHANGED <<startup, frame, env, pc, exitCode, config, logger, registered, fileWritable, io,
                   logCalls, emit, emitCalls, sent, invCount>>

\* a tools/list request is answered by the MCP server with the tools
\* registered at startup (tests/mcp-startup.spec.ts:245-248)
ListTools ==
    /\ pc = "running"
    /\ listed' = registered
    /\ UNCHANGED <<env, pc, exitCode, config, logger, registered, fileWritable, io,
                   logCalls, emit, emitCalls, sent, cur, invCount, startup,
                   toolDefs, res, stdio, parked>>

\* an invocation suspended at an await leaves the processor and another
\* request is served or another continuation resumed (index.ts:132-133: the
\* server calls the async implementation once per request, without waiting
\* for earlier calls to settle)
Park ==
    /\ cur.pc \in {"await0", "remote", "await100"}
    /\ Len(parked) < MaxParked
    /\ parked' = Append(parked, cur)
    /\ cur' = NoInvocation
    /\ UNCHANGED <<env, pc, exitCode, config, logger, registered, fileWritable, io,
                   logCalls, emit, emitCalls, sent, invCount, startup,
                   toolDefs, listed, res, stdio>>

\* the event loop resumes a suspended invocation
Resume(i) ==
    /\ cur.pc = "none"
    /\ i \in DOMAIN parked
    /\ cur' = parked[i]
    /\ parked' = [j \in 1..(Len(parked) - 1) |-> IF j < i THEN parked[j] ELSE parked[j + 1]]
    /\ UNCHANGED <<env, pc, exitCode, config, logger, registered, fileWritable, io,
                   logCalls, emit, emitCalls, sent, invCount, startup,
                   toolDefs, listed, res, stdio>>

\* ----------------------------------------------------------- get_flag_state
getFlagState_Begin_CachesProject(args, progressToken) ==
    /\ CanBegin
    /\ invCount' = invCount + 1
    /\ LET inv == NewInvocation("get_flag_state", args, progressToken)
           issues == getFlagStateSchema(args)
           project == ensureProjectId(args.projectId, config.defaultProject)
       IN IF issues # {}
          THEN Caught(inv, ZodError(issues), "get_flag_state") /\ UNCHANGED <<sent, config>>
          ELSE IF project.threw
          THEN Caught(inv, JsError("Error", "ProjectIdRequired"), "get_flag_state")
               /\ UNCHANGED <<sent, config>>
          ELSE /\ sent' = sent \o callSiteNotifications("context.server", progressToken,
                                                        0, 100, "Fetching")
               /\ config' = [config EXCEPT !.defaultProject = project.value]
               /\ cur' = [inv EXCEPT !.pc = "await0", !.projectId = project.value,
                                     !.notifyCalls = Append(@, 0)]
               /\ UNCHANGED io
    /\ UNCHANGED <<startup, frame, env, pc, exitCode, logger, registered, fileWritable,
                   logCalls, emit, emitCalls>>

\* getFlagState.ts:29-45: parse, resolve the project, first notifyProgress
\* call site, suspended at its await
getFlagState_Begin(args, progressToken) ==
    /\ CanBegin
    /\ invCount' = invCount + 1
    /\ LET inv == NewInvocation("get_flag_state", args, progressToken)
           issues == getFlagStateSchema(args)
           project == ensureProjectId(args.projectId, config.defaultProject)
       IN IF issues # {}
          THEN Caught(inv, ZodError(issues), "get_flag_state") /\ UNCHANGED sent
          ELSE IF project.threw
          THEN Caught(inv, JsError("Error", "ProjectIdRequired"), "get_flag_state")
               /\ UNCHANGED sent
          ELSE /\ sent' = sent \o callSiteNotifications("context.server", progressToken,
                                                        0, 100, "Fetching")
               /\ cur' = [inv EXCEPT !.pc = "await0", !.projectId = project.value,
                                     !.notifyCalls = Append(@, 0)]
               /\ UNCHANGED io
    /\ UNCHANGED <<startup, frame, env, pc, exitCode, config, logger, registered, fileWritable,
                   logCalls, emit, emitCalls>>

\* getFlagState.ts:47: the remote call is made
getFlagState_CallRemote ==
    /\ cur.pc = "await0" /\ cur.tool = "get_flag_state"
    /\ cur' = [cur EXCEPT !.pc = "remote", !.remoteCalls = @ + 1,
                          !.remoteProjectIds = Append(@, cur.projectId)]
    /\ UNCHANGED <<startup, frame, env, pc, exitCode, config, logger, registered, fileWritable, io,
                   logCalls, emit, emitCalls, sent, invCount>>

getFlagState_RemoteSettles_Retry(outcome) ==
    /\ cur.pc = "remote" /\ cur.tool = "get_flag_state"
    /\ LET inv == [cur EXCEPT !.remote = outcome] IN
       CASE outcome.kind = "throw" /\ cur.remoteCalls < 2 ->
              cur' = [inv EXCEPT !.pc = "await0"] /\ UNCHANGED <<io, sent>>
         [] outcome.kind = "throw" /\ cur.remoteCalls >= 2 ->
              Caught(inv, JsError("RemoteError", outcome.status), "get_flag_state")
              /\ UNCHANGED sent
         [] outcome.kind = "malformed" ->
              Caught(inv, JsError("TypeError", "feature"), "get_flag_state")
              /\ UNCHANGED sent
         [] outcome.kind = "feature" ->
              /\ sent' = sent \o callSiteNotifications("context.server", cur.progressToken,
                                                       100, 100, "Fetched")
              /\ cur' = [inv EXCEPT
                    !.pc = "await100", !.notifyCalls = Append(@, 100),
                    !.environments =
                        IF Truthy(cur.args.environment)
                        THEN {e \in outcome.environments :
                                toLowerCase(e) = toLowerCase(cur.args.environment)}
                        ELSE outcome.environments]
              /\ UNCHANGED io
    /\ UNCHANGED <<startup, frame, env, pc, exitCode, config, logger, registered, fileWritable,
                   logCalls, emit, emitCalls, invCount>>

\* getFlagState.ts:47-65: the remote call settles; on a feature the
\* environments are filtered and the second notifyProgress call site awaited
getFlagState_RemoteSettles(outcome) ==
    /\ cur.pc = "remote" /\ cur.tool = "get_flag_state"
    /\ LET inv == [cur EXCEPT !.remote = outcome] IN
       CASE outcome.kind = "throw" ->
              Caught(inv, JsError("RemoteError", outcome.status), "get_flag_state")
              /\ UNCHANGED sent
         [] outcome.kind = "malformed" ->
              Caught(inv, JsError("TypeError", "feature"), "get_flag_state")
              /\ UNCHANGED sent
         [] outcome.kind = "feature" ->
              /\ sent' = sent \o callSiteNotifications("context.server", cur.progressToken,
                                                       100, 100, "Fetched")
              /\ cur' = [inv EXCEPT
                    !.pc = "await100", !.notifyCalls = Append(@, 100),
                    !.environments =
                        IF Truthy(cur.args.environment)
                        THEN {e \in outcome.environments :
                                toLowerCase(e) = toLowerCase(cur.args.environment)}
                        ELSE outcome.environments]
              /\ UNCHANGED io
    /\ UNCHANGED <<startup, frame, env, pc, exitCode, config, logger, registered, fileWritable,
                   logCalls, emit, emitCalls, invCount>>

\* getFlagState.ts:67-127: the summary is built, logged at info level and the
\* success result returned
getFlagState_Return ==
    /\ cur.pc = "await100" /\ cur.tool = "get_flag_state"
    /\ io' = loggerInfo(logger, "Retrieved feature state", fileWritable, io)
    /\ cur' = [cur EXCEPT
          !.pc = "done", !.outcome = "returned", !.infoCalls = @ + 1,
          !.errorLines = @ + ErrorLinesIn(io') - ErrorLinesIn(io),
          !.result = [isError |-> FALSE, success |-> TRUE, error |-> NoError,
                      hintSuffix |-> FALSE, text |-> NoText,
                      projectId |-> cur.projectId,
                      environments |-> cur.environments]]
    /\ UNCHANGED <<startup, frame, env, pc, exitCode, config, logger, registered, fileWritable,
                   logCalls, emit, emitCalls, sent, invCount>>

\* --------------------------------------------------- toggle_flag_environment
toggleFlagEnvironment_Begin_NotifyFirst(args, progressToken) ==
    /\ CanBegin
    /\ invCount' = invCount + 1
    /\ LET inv == [NewInvocation("toggle_flag_environment", args, progressToken)
                           EXCEPT !.notifyCalls = <<0>>]
           issues == toggleFlagEnvironmentSchema(args)
           project == ensureProjectId(args.projectId, config.defaultProject)
       IN IF issues # {}
          THEN Caught(inv, ZodError(issues), "toggle_flag_environment") /\ UNCHANGED sent
          ELSE IF project.threw
          THEN Caught(inv, JsError("Error", "ProjectIdRequired"), "toggle_flag_environment")
               /\ UNCHANGED sent
          ELSE /\ sent' = sent \o callSiteNotifications("context.server", progressToken,
                                                        0, 100, "Toggling")
               /\ cur' = [inv EXCEPT !.pc = "await0", !.projectId = project.value]
               /\ UNCHANGED io
    /\ UNCHANGED <<startup, frame, env, pc, exitCode, config, logger, registered, fileWritable,
                   logCalls, emit, emitCalls>>

\* toggleFlagEnvironment.ts:21-38
toggleFlagEnvironment_Begin(args, progressToken) ==
    /\ CanBegin
    /\ invCount' = invCount + 1
    /\ LET inv == NewInvocation("toggle_flag_environment", args, progressToken)
           issues == toggleFlagEnvironmentSchema(args)
           project == ensureProjectId(args.projectId, config.defaultProject)
       IN IF issues # {}
          THEN Caught(inv, ZodError(issues), "toggle_flag_environment") /\ UNCHANGED sent
          ELSE IF project.threw
          THEN Caught(inv, JsError("Error", "ProjectIdRequired"), "toggle_flag_environment")
               /\ UNCHANGED sent
          ELSE /\ sent' = sent \o callSiteNotifications("context.server", progressToken,
                                                        0, 100, "Toggling")
               /\ cur' = [inv EXCEPT !.pc = "await0", !.projectId = project.value,
                                     !.notifyCalls = Append(@, 0)]
               /\ UNCHANGED io
    /\ UNCHANGED <<startup, frame, env, pc, exitCode, config, logger, registered, fileWritable,
                   logCalls, emit, emitCalls>>

\* toggleFlagEnvironment.ts:40-45
toggleFlagEnvironment_CallRemote ==
    /\ cur.pc = "await0" /\ cur.tool = "toggle_flag_environment"
    /\ cur' = [cur EXCEPT !.pc = "remote", !.remoteCalls = @ + 1,
                          !.remoteProjectIds = Append(@, cur.projectId)]
    /\ UNCHANGED <<startup, frame, env, pc, exitCode, config, logger, registered, fileWritable, io,
                   logCalls, emit, emitCalls, sent, invCount>>

\* toggleFlagEnvironment.ts:40-53
toggleFlagEnvironment_RemoteSettles(outcome) ==
    /\ cur.pc = "remote" /\ cur.tool = "toggle_flag_environment"
    /\ LET inv == [cur EXCEPT !.remote = outcome] IN
       CASE outcome.kind = "throw" ->
              Caught(inv, JsError("RemoteError", outcome.status), "toggle_flag_environment")
              /\ UNCHANGED sent
         [] outcome.kind = "malformed" ->
              Caught(inv, JsError("TypeError", "feature"), "toggle_flag_environment")
              /\ UNCHANGED sent
         [] outcome.kind = "feature" ->
              /\ sent' = sent \o callSiteNotifications("context.server", cur.progressToken,
                                                       100, 100, "Toggled")
              /\ cur' = [inv EXCEPT
                    !.pc = "await100", !.notifyCalls = Append(@, 100),
                    !.environments =
                        {e \in outcome.environments :
                            toLowerCase(e) = toLowerCase(cur.args.environment)}]
              /\ UNCHANGED io
    /\ UNCHANGED <<startup, frame, env, pc, exitCode, config, logger, registered, fileWritable,
                   logCalls, emit, emitCalls, invCount>>

\* toggleFlagEnvironment.ts:55-115: the success result is built and returned
toggleFlagEnvironment_Return ==
    /\ cur.pc = "await100" /\ cur.tool = "toggle_flag_environment"
    /\ cur' = [cur EXCEPT
          !.pc = "done", !.outcome = "returned",
          !.result = [isError |-> FALSE, success |-> TRUE, error |-> NoError,
                      hintSuffix |-> FALSE, text |-> NoText,
                      projectId |-> cur.projectId,
                      environments |-> cur.environments]]
    /\ UNCHANGED <<startup, frame, env, pc, exitCode, config, logger, registered, fileWritable, io,
                   logCalls, emit, emitCalls, sent, invCount>>

\* ------------------------------------------------------------------- init
EnvValues ==
    [UNLEASH_BASE_URL : {Undefined, "https://unleash"},
     UNLEASH_PAT : {"", "pat"},
     UNLEASH_DEFAULT_PROJECT : {Undefined, "", "proj"},
     APP_LOG_FILE : {Undefined, "", "/tmp/app.log"},
     logLevelFlag : {Undefined, "debug", "warn", "error", "verbose"}]

NoEmit == [pc |-> "idle"]

\* ------------------------------------------------------ resource readers
\* no resource read is in progress; count is the number of reads begun
NoRead == [pc |-> "none", reader |-> "none", projectId |-> Undefined,
           flagName |-> Undefined, fetched |-> <<>>, outcome |-> "pending",
           error |-> Undefined, count |-> 0]

\* resources parseProjectsResourceOptions and
\* parseFeatureFlagsResourceOptions (section 4.3 of the specification):
\* out-of-range options fail with InvalidInput
parseFeatureFlagsResourceOptions(query) ==
    IF query \in {"offset=-1", "limit=0"}
    THEN [threw |-> TRUE, options |-> Undefined]
    ELSE [threw |-> FALSE, options |-> query]

CanRead ==
    /\ pc = "running"
    /\ res.pc = "none"
    /\ res.count < MaxReads

\* index.ts:155-166: reader of unleash-projects-filtered up to the remote
\* fetch of readProjectsResource; the template has no placeholder
projects_Read(query) ==
    /\ CanRead
    /\ LET r == [res EXCEPT !.reader = "unleash-projects-filtered", !.count = @ + 1]
           parsed == parseFeatureFlagsResourceOptions(query)
       IN IF parsed.threw
          THEN res' = [r EXCEPT !.pc = "done", !.outcome = "threw", !.error = "InvalidInput"]
          ELSE res' = [r EXCEPT !.pc = "fetch",
                                !.fetched = Append(@, [parentId |-> Undefined,
                                                       itemId |-> Undefined])]
    /\ UNCHANGED <<env, pc, exitCode, config, logger, registered, fileWritable, io,
                   logCalls, emit, emitCalls, sent, cur, invCount, startup,
                   toolDefs, listed, stdio, parked>>

\* index.ts:181-196: reader of unleash-feature-flags-by-project up to the
\* remote fetch of readFeatureFlagsResource
featureFlagsByProject_Read(projectId, query) ==
    /\ CanRead
    /\ LET r == [res EXCEPT !.reader = "unleash-feature-flags-by-project",
                            !.projectId = projectId, !.count = @ + 1]
           parsed == parseFeatureFlagsResourceOptions(query)
       IN IF ~Truthy(projectId)
          THEN res' = [r EXCEPT !.pc = "done", !.outcome = "threw",
                                !.error = "Project ID missing from feature flags URI"]
          ELSE IF parsed.threw
          THEN res' = [r EXCEPT !.pc = "done", !.outcome = "threw", !.error = "InvalidInput"]
          ELSE res' = [r EXCEPT !.pc = "fetch",
                                !.fetched = Append(@, [parentId |-> projectId,
                                                       itemId |-> Undefined])]
    /\ UNCHANGED <<env, pc, exitCode, config, logger, registered, fileWritable, io,
                   logCalls, emit, emitCalls, sent, cur, invCount, startup,
                   toolDefs, listed, stdio, parked>>

featureFlag_Read_NoFlagNameCheck(projectId, flagName) ==
    /\ CanRead
    /\ LET r == [res EXCEPT !.reader = "unleash-feature-flag",
                            !.projectId = projectId, !.flagName = flagName,
                            !.count = @ + 1]
       IN IF ~Truthy(projectId)
          THEN res' = [r EXCEPT !.pc = "done", !.outcome = "threw",
                                !.error = "Project ID missing from feature flag URI"]
          ELSE res' = [r EXCEPT !.pc = "fetch",
                                !.fetched = Append(@, [parentId |-> projectId,
                                                       itemId |-> flagName])]
    /\ UNCHANGED <<env, pc, exitCode, config, logger, registered, fileWritable, io,
                   logCalls, emit, emitCalls, sent, cur, invCount, startup,
                   toolDefs, listed, stdio, parked>>

\* index.ts:210-222: reader of unleash-feature-flag up to the remote fetch
\* of readFeatureFlagResource
featureFlag_Read(projectId, flagName) ==
    /\ CanRead
    /\ LET r == [res EXCEPT !.reader = "unleash-feature-flag",
                            !.projectId = projectId, !.flagName = flagName,
                            !.count = @ + 1]
       IN IF ~Truthy(projectId)
          THEN res' = [r EXCEPT !.pc = "done", !.outcome = "threw",
                                !.error = "Project ID missing from feature flag URI"]
          ELSE IF ~Truthy(flagName)
          THEN res' = [r EXCEPT !.pc = "done", !.outcome = "threw",
                                !.error = "Flag name missing from feature flag URI"]
          ELSE res' = [r EXCEPT !.pc = "fetch",
                                !.fetched = Append(@, [parentId |-> projectId,
                                                       itemId |-> flagName])]
    /\ UNCHANGED <<env, pc, exitCode, config, logger, registered, fileWritable, io,
                   logCalls, emit, emitCalls, sent, cur, invCount, startup,
                   toolDefs, listed, stdio, parked>>

\* the remote fetch of readFeatureFlagsResource / readFeatureFlagResource
\* settles (section 4.3: one fresh fetch, one content block); index.ts:187-195
\* and 218-220 return the contents or let the rejection through
resource_FetchSettles(ok) ==
    /\ res.pc = "fetch"
    /\ res' = [res EXCEPT !.pc = "done",
                          !.outcome = IF ok THEN "returned" ELSE "threw",
                          !.error = IF ok THEN Undefined ELSE "RemoteError"]
    /\ UNCHANGED <<env, pc, exitCode, config, logger, registered, fileWritable, io,
                   logCalls, emit, emitCalls, sent, cur, invCount, startup,
                   toolDefs, listed, stdio, parked>>

\* the server answers the resources/read request; the read is over
resource_Respond ==
    /\ res.pc = "done"
    /\ res' = [NoRead EXCEPT !.count = res.count]
    /\ UNCHANGED <<env, pc, exitCode, config, logger, registered, fileWritable, io,
                   logCalls, emit, emitCalls, sent, cur, invCount, startup,
                   toolDefs, listed, stdio, parked>>

\* ---------------------------------------------------------- stdio logging
\* stdout and stderr before enableStdioLogging: not patched, nothing written;
\* logFile is process.env.MCP_STDIO_LOG_FILE, depth the number of wrappers
\* around each original writer, tee the lines of the log file
NoStdio == [logFile |-> Undefined, enableCalls |-> 0, depth |-> 0, listeners |-> 0,
            writes |-> <<>>, out |-> <<>>, err |-> <<>>, tee |-> <<>>,
            returns |-> <<>>]

\* chunk.toString() of a string and of a Uint8Array (part_001:98, 114)
chunkToString(chunk) == IF chunk = "Uint8Array[104,105]" THEN "104,105" ELSE chunk

\* channel.toUpperCase() (part_001:67)
toUpperCase_channel(channel) ==
    CASE channel = "stdout" -> "STDOUT"
      [] channel = "stderr" -> "STDERR"
      [] OTHER -> "STDIN"

append_Throws(st, channel, payload, ok) ==
    [st |-> IF ok
            THEN [st EXCEPT !.tee = Append(@, [channel |-> toUpperCase_channel(channel),
                                               payload |-> payload])]
            ELSE st,
     threw |-> ~ok]

\* part_001:66-73: one line appended to the log file; a failing
\* fs.appendFileSync (ok = FALSE) is swallowed
append(st, channel, payload, ok) ==
    [st |-> IF ok
            THEN [st EXCEPT !.tee = Append(@, [channel |-> toUpperCase_channel(channel),
                                               payload |-> payload])]
            ELSE st,
     threw |-> FALSE]

\* the writer of the stream before any patch: the chunk reaches the stream
\* and the writer returns ret
originalWrite(st, channel, chunk, ret) ==
    [st EXCEPT !.out = IF channel = "stdout" THEN Append(@, chunk) ELSE @,
               !.err = IF channel = "stderr" THEN Append(@, chunk) ELSE @,
               !.returns = Append(@, ret)]

\* part_001:87-121: a patched write appends to the log file and returns what
\* the writer it wraps returns; a throw of append would leave the wrapper
\* before the wrapped writer is called
RECURSIVE patchedWrite(_, _, _, _, _, _)
patchedWrite(depth, st, channel, chunk, ok, ret) ==
    IF depth = 0 THEN originalWrite(st, channel, chunk, ret)
    ELSE LET a == append(st, channel, chunkToString(chunk), ok) IN
         IF a.threw THEN a.st
         ELSE patchedWrite(depth - 1, a.st, channel, chunk, ok, ret)

\* part_001:75-122
enableStdioLogging(st) ==
    IF ~Truthy(st.logFile) THEN st
    ELSE [st EXCEPT !.listeners = @ + 1, !.depth = @ + 1]

EnableStdioLogging ==
    /\ stdio.enableCalls < MaxEnableCalls
    /\ stdio' = [enableStdioLogging(stdio) EXCEPT !.enableCalls = @ + 1]
    /\ UNCHANGED <<env, pc, exitCode, config, logger, registered, fileWritable, io,
                   logCalls, emit, emitCalls, sent, cur, invCount, startup,
                   toolDefs, listed, res, parked>>

\* process.stdout.write(chunk) or process.stderr.write(chunk) by any part of
\* the program; ok: fs.appendFileSync succeeds, ret: what the original
\* writer returns
StdioWrite(channel, chunk, ok, ret) ==
    /\ Len(stdio.writes) < MaxWrites
    /\ stdio' = patchedWrite(stdio.depth,
                    [stdio EXCEPT !.writes = Append(@, [channel |-> channel,
                                                        chunk |-> chunk, ret |-> ret])],
                    channel, chunk, ok, ret)
    /\ UNCHANGED <<env, pc, exitCode, config, logger, registered, fileWritable, io,
                   logCalls, emit, emitCalls, sent, cur, invCount, startup,
                   toolDefs, listed, res, parked>>


Init ==
    /\ env \in EnvValues
    /\ pc = "init"
    /\ exitCode = -1
    /\ config = NoConfig
    /\ logger = NoLogger
    /\ registered = <<>>
    /\ fileWritable \in BOOLEAN
    /\ io = [file |-> <<>>, stderr |-> <<>>, stdout |-> <<>>]
    /\ logCalls = <<>>
    /\ emit = NoEmit
    /\ emitCalls = <<>>
    /\ sent = <<>>
    /\ cur = NoInvocation
    /\ invCount = 0
    /\ startup = <<>>
    /\ toolDefs = tools
    /\ listed = <<>>
    /\ res = NoRead
    /\ stdio = NoStdio
    /\ parked = <<>>

\* ------------------------------------------------- logger specification
NextLogger ==
    \/ Main
    \/ MainConnected
    \/ EnvFsChange
    \/ \E level \in {"debug", "info", "warn", "error"}, message \in {"m"} :
            LoggerCall(level, message)

SpecLogger == Init /\ [][NextLogger]_vars

\* ------------------------------------------------ startup specification
\* the tool definitions main() may be built with: the nine of index.ts, and
\* lists in which a later definition carries the name of an earlier one
ToolDefLists ==
    {tools, [tools EXCEPT ![2] = "create_flag"], [tools EXCEPT ![Len(tools)] = "create_flag"]}

InitStartup ==
    /\ env \in EnvValues
    /\ pc = "init"
    /\ exitCode = -1
    /\ config = NoConfig
    /\ logger = NoLogger
    /\ registered = <<>>
    /\ fileWritable \in BOOLEAN
    /\ io = [file |-> <<>>, stderr |-> <<>>, stdout |-> <<>>]
    /\ logCalls = <<>>
    /\ emit = NoEmit
    /\ emitCalls = <<>>
    /\ sent = <<>>
    /\ cur = NoInvocation
    /\ invCount = 0
    /\ startup = <<>>
    /\ toolDefs \in ToolDefLists
    /\ listed = <<>>
    /\ res = NoRead
    /\ stdio = NoStdio
    /\ parked = <<>>

NextStartup ==
    \/ Main
    \/ MainConnected
    \/ EnvFsChange
    \/ ListTools

SpecStartup == InitStartup /\ [][NextStartup]_vars

\* ------------------------------------------------ emitter specification
\* the server is up (started at log level error, no log file): the state
\* main() reaches through Main and MainConnected from such an environment
EmitterEnv ==
    [UNLEASH_BASE_URL |-> "https://unleash", UNLEASH_PAT |-> "pat",
     UNLEASH_DEFAULT_PROJECT |-> "proj", APP_LOG_FILE |-> Undefined,
     logLevelFlag |-> "error"]

InitEmitter ==
    /\ env = EmitterEnv
    /\ pc = "running"
    /\ exitCode = -1
    /\ config = [defaultProject |-> "proj", logLevel |-> "error"]
    /\ logger = [currentLevelIndex |-> 3, appLogFile |-> Undefined]
    /\ registered = tools
    /\ fileWritable = TRUE
    /\ io = [file |-> <<>>, stderr |-> <<>>, stdout |-> <<>>]
    /\ logCalls = <<>>
    /\ emit = NoEmit
    /\ emitCalls = <<>>
    /\ sent = <<>>
    /\ cur = NoInvocation
    /\ invCount = 0
    /\ startup = mainSteps
    /\ toolDefs = tools
    /\ listed = <<>>
    /\ res = NoRead
    /\ stdio = NoStdio
    /\ parked = <<>>

Tokens == {Undefined, "0", "tok"}

NextEmitter ==
    \/ \E t \in Tokens, p \in {0, 100}, m \in {Undefined, "msg"} : EmitCall(t, p, 100, m)
    \/ \E d \in BOOLEAN : EmitSettle(d)

SpecEmitter == InitEmitter /\ [][NextEmitter]_vars

\* ---------------------------------------------- resources specification
InitResources ==
    /\ env = EmitterEnv
    /\ pc = "running"
    /\ exitCode = -1
    /\ config = [defaultProject |-> "proj", logLevel |-> "error"]
    /\ logger = [currentLevelIndex |-> 3, appLogFile |-> Undefined]
    /\ registered = tools
    /\ fileWritable = TRUE
    /\ io = [file |-> <<>>, stderr |-> <<>>, stdout |-> <<>>]
    /\ logCalls = <<>>
    /\ emit = NoEmit
    /\ emitCalls = <<>>
    /\ sent = <<>>
    /\ cur = NoInvocation
    /\ invCount = 0
    /\ startup = mainSteps
    /\ toolDefs = tools
    /\ listed = <<>>
    /\ res = NoRead
    /\ stdio = NoStdio
    /\ parked = <<>>

PlaceholderValues == {Undefined, "", "proj", "flagX"}

NextResources ==
    \/ \E q \in {"", "offset=-1", "limit=5"} : projects_Read(q)
    \/ \E p \in PlaceholderValues, q \in {"", "offset=-1", "limit=5"} :
            featureFlagsByProject_Read(p, q)
    \/ \E p \in PlaceholderValues, f \in PlaceholderValues : featureFlag_Read(p, f)
    \/ \E ok \in BOOLEAN : resource_FetchSettles(ok)
    \/ resource_Respond

SpecResources == InitResources /\ [][NextResources]_vars

\* -------------------------------------------------- stdio specification
InitStdio ==
    /\ env = EmitterEnv
    /\ pc = "init"
    /\ exitCode = -1
    /\ config = NoConfig
    /\ logger = NoLogger
    /\ registered = <<>>
    /\ fileWritable = TRUE
    /\ io = [file |-> <<>>, stderr |-> <<>>, stdout |-> <<>>]
    /\ logCalls = <<>>
    /\ emit = NoEmit
    /\ emitCalls = <<>>
    /\ sent = <<>>
    /\ cur = NoInvocation
    /\ invCount = 0
    /\ startup = <<>>
    /\ toolDefs = tools
    /\ listed = <<>>
    /\ res = NoRead
    /\ stdio \in {[NoStdio EXCEPT !.logFile = f] : f \in {Undefined, "", "/tmp/stdio.log"}}
    /\ parked = <<>>

NextStdio ==
    \/ EnableStdioLogging
    \/ \E ch \in {"stdout", "stderr"}, chunk \in {"a", "Uint8Array[104,105]"},
          ok \in BOOLEAN, ret \in BOOLEAN : StdioWrite(ch, chunk, ok, ret)

SpecStdio == InitStdio /\ [][NextStdio]_vars

\* ---------------------------------------------- concurrent specification
ConcurrentEnvs ==
    {[EmitterEnv EXCEPT !.UNLEASH_DEFAULT_PROJECT = d] : d \in {Undefined, "proj"}}

InitConcurrent ==
    /\ env \in ConcurrentEnvs
    /\ pc = "init"
    /\ exitCode = -1
    /\ config = NoConfig
    /\ logger = NoLogger
    /\ registered = <<>>
    /\ fileWritable = TRUE
    /\ io = [file |-> <<>>, stderr |-> <<>>, stdout |-> <<>>]
    /\ logCalls = <<>>
    /\ emit = NoEmit
    /\ emitCalls = <<>>
    /\ sent = <<>>
    /\ cur = NoInvocation
    /\ invCount = 0
    /\ startup = <<>>
    /\ toolDefs = tools
    /\ listed = <<>>
    /\ res = NoRead
    /\ stdio = NoStdio
    /\ parked = <<>>

ConcurrentGetArgs ==
    [isObject : {TRUE}, projectId : {Undefined, "p1"}, featureName : {Undefined, "flag"},
     environment : {Undefined}, enabled : {Undefined}]

ConcurrentToggleArgs ==
    [isObject : {TRUE}, projectId : {Undefined, "p2"}, featureName : {"flag"},
     environment : {"DEV"}, enabled : {"true"}]

ConcurrentOutcomes ==
    {o \in RemoteOutcomes : o.environments = {"dev", "prod"} \/ o.status = "401"}

NextConcurrent ==
    \/ Main
    \/ MainConnected
    \/ ListTools
    \/ \E a \in ConcurrentGetArgs, t \in {Undefined, "tok"} : getFlagState_Begin(a, t)
    \/ getFlagState_CallRemote
    \/ \E o \in ConcurrentOutcomes : getFlagState_RemoteSettles(o)
    \/ getFlagState_Return
    \/ \E a \in ConcurrentToggleArgs : toggleFlagEnvironment_Begin(a, "tok2")
    \/ toggleFlagEnvironment_CallRemote
    \/ \E o \in ConcurrentOutcomes : toggleFlagEnvironment_RemoteSettles(o)
    \/ toggleFlagEnvironment_Return
    \/ Respond
    \/ Park
    \/ \E i \in 1..MaxParked : Resume(i)

SpecConcurrent == InitConcurrent /\ [][NextConcurrent]_vars

\* --------------------------------------------------- server specification
GetArgs ==
    [isObject : {TRUE}, projectId : {Undefined, "", "p1"},
     featureName : {Undefined, "", "flag", "#42"},
     environment : {Undefined, "DEV", "#42"}, enabled : {Undefined}]

ToggleArgs ==
    [isObject : {TRUE}, projectId : {Undefined, "", "p1"},
     featureName : {Undefined, "flag"},
     environment : {Undefined, "", "DEV"}, enabled : {Undefined, "true", "false", "#42"}]

Next ==
    \/ Main
    \/ MainConnected
    \/ EnvFsChange
    \/ \E a \in GetArgs \cup {NoArgs}, t \in {Undefined, "tok"} : getFlagState_Begin(a, t)
    \/ getFlagState_CallRemote
    \/ \E o \in RemoteOutcomes : getFlagState_RemoteSettles(o)
    \/ getFlagState_Return
    \/ \E a \in ToggleArgs \cup {NoArgs}, t \in {Undefined, "tok"} :
            toggleFlagEnvironment_Begin(a, t)
    \/ toggleFlagEnvironment_CallRemote
    \/ \E o \in RemoteOutcomes : toggleFlagEnvironment_RemoteSettles(o)
    \/ toggleFlagEnvironment_Return
    \/ Respond

Spec == Init /\ [][Next]_vars

\* ------------------------------------------------------------- properties
\* the notifications sent on behalf of emitter call n, in order
NotificationsOf(n) == SelectSeq(sent, LAMBDA x : x.call = n)

\* C1: every tool invocation finishes by returning a result, a success
\* result or a failure result with isError = true; it never throws to its
\* caller, whatever the arguments and whatever the remote client does
C1_AlwaysReturnsResult ==
    cur.pc = "done" =>
        /\ cur.outcome = "returned"
        /\ \/ cur.result.success /\ ~cur.result.isError
           \/ cur.result.isError /\ ~cur.result.success

C1_Witness ==
    /\ cur.pc = "done"
    /\ cur.remote.kind \in {"throw", "malformed"}
    /\ cur.outcome = "returned"
    /\ cur.result.isError

\* C2: with a progress token, a successful invocation has sent a progress
\* notification (0, 100) and later a progress notification (100, 100)
C2_ProgressSentAtStartAndEnd ==
    (cur.pc = "done" /\ cur.result.success /\ cur.progressToken # Undefined) =>
        \E i, j \in DOMAIN sent :
            /\ i < j
            /\ sent[i].notification.method = "notifications/progress"
            /\ sent[i].notification.progress = 0 /\ sent[i].notification.total = 100
            /\ sent[j].notification.method = "notifications/progress"
            /\ sent[j].notification.progress = 100 /\ sent[j].notification.total = 100

\* C3: an emitter call without a progress token sends no notification: every
\* notification ever sent belongs to a call that carried a token
C3_NoTokenNoNotification ==
    /\ \A i \in DOMAIN sent : emitCalls[sent[i].call].call.progressToken # Undefined
    /\ \A n \in DOMAIN emitCalls :
          emitCalls[n].call.progressToken = Undefined =>
              NotificationsOf(n) = <<>> /\ emitCalls[n].status = "resolved"

C3_Witness ==
    /\ Len(emitCalls) = MaxEmitCalls
    /\ \A n \in DOMAIN emitCalls : emitCalls[n].call.progressToken = Undefined
    /\ emitCalls[1].call.progress = 0 /\ emitCalls[MaxEmitCalls].call.progress = 100
    /\ sent = <<>>

\* C4 as stated: every completed emitter call that carried a token has sent
\* a progress notification and then a message notification
C4_ProgressThenMessageAlways ==
    \A n \in DOMAIN emitCalls :
        (emitCalls[n].call.progressToken # Undefined /\ emitCalls[n].status # "pending") =>
            /\ Len(NotificationsOf(n)) = 2
            /\ NotificationsOf(n)[1].notification.method = "notifications/progress"
            /\ NotificationsOf(n)[2].notification.method = "notifications/message"

\* C4 amended: a call with a token first sends the progress notification
\* carrying its token, progress and total; the message notification follows
\* only once the progress notification was delivered, and a failed progress
\* send ends the call with no message; the notifications of successive
\* awaited calls never interleave
C4_ProgressThenMessageIfDelivered ==
    /\ \A n \in DOMAIN emitCalls :
          LET c == emitCalls[n].call
              ns == NotificationsOf(n) IN
          c.progressToken # Undefined =>
              /\ Len(ns) \in {1, 2}
              /\ ns[1].notification.method = "notifications/progress"
              /\ ns[1].notification.progressToken = c.progressToken
              /\ ns[1].notification.progress = c.progress
              /\ ns[1].notification.total = c.total
              /\ Len(ns) = 2 =>
                    /\ ns[1].status = "delivered"
                    /\ ns[2].notification.method = "notifications/message"
                    /\ ns[2].notification.data = c.message
              /\ (emitCalls[n].status # "pending" /\ Len(ns) = 1) => ns[1].status = "failed"
              /\ (emitCalls[n].status # "pending" /\ ns[1].status = "delivered") => Len(ns) = 2
    /\ \A i, j \in DOMAIN sent : i < j => sent[i].call <= sent[j].call

C4_Witness ==
    /\ Len(emitCalls) = 2
    /\ emitCalls[1].call.progressToken = "0" /\ emitCalls[2].call.progressToken = "0"
    /\ emitCalls[1].call.progress = 0 /\ emitCalls[2].call.progress = 100
    /\ emitCalls[2].status = "resolved"
    /\ Len(sent) = 4
    /\ \A i \in 1..4 : sent[i].status = "delivered"
    /\ sent[1].notification.progress = 0 /\ sent[3].notification.progress = 100

\* C5: a failed notification never makes the emitter call fail: no emitter
\* call is ever rejected, and a call is over as soon as one of its sends failed
C5_NotificationFailureSwallowed ==
    /\ \A n \in DOMAIN emitCalls : emitCalls[n].status \in {"pending", "resolved"}
    /\ \A i \in DOMAIN sent :
          sent[i].status = "failed" => emitCalls[sent[i].call].status = "resolved"
    /\ emit.pc = "idle" => \A n \in DOMAIN emitCalls : emitCalls[n].status = "resolved"

C5_Witness ==
    \E i, j \in DOMAIN sent :
        /\ i < j
        /\ sent[i].status = "failed"
        /\ sent[i].notification.method = "notifications/progress"
        /\ sent[j].status = "failed"
        /\ sent[j].notification.method = "notifications/message"
        /\ emitCalls[sent[j].call].status = "resolved"

\* the required fields of each tool's input
RequiredFields(tool) ==
    IF tool = "get_flag_state" THEN {"featureName"}
    ELSE {"featureName", "environment", "enabled"}

\* C6: arguments that lack a required field give a failure result of kind
\* InvalidInput whose message names every missing required field
C6_MissingFieldIsInvalidInput ==
    (cur.pc = "done" /\ cur.args.isObject) =>
        \A f \in RequiredFields(cur.tool) :
            cur.args[f] = Undefined =>
                /\ cur.outcome = "returned"
                /\ cur.result.isError
                /\ cur.result.error.code = "InvalidInput"
                /\ f \in cur.result.error.message
                /\ cur.remoteCalls = 0

C6_Witness ==
    /\ cur.pc = "done"
    /\ cur.tool = "get_flag_state"
    /\ cur.args.isObject
    /\ cur.args.featureName = Undefined
    /\ cur.args.projectId = "p1"
    /\ cur.result.error.code = "InvalidInput"
    /\ cur.result.error.message = {"featureName"}

\* C7: an invocation that ends in a failure result has made exactly one
\* logger.error call and written exactly one error line, an invocation that
\* ends in a success result none, whatever the configured log level
C7_OneErrorLinePerFailure ==
    cur.pc = "done" =>
        /\ cur.result.isError => cur.errorCalls = 1 /\ cur.errorLines = 1
        /\ cur.result.success => cur.errorCalls = 0 /\ cur.errorLines = 0

C7_Witness ==
    /\ invCount = 2
    /\ cur.pc = "done"
    /\ cur.result.isError
    /\ config.logLevel = "error"
    /\ cur.errorLines = 1
    /\ ErrorLinesIn(io) = 2

\* C8: nothing is ever written to stdout: not by the startup sequence, not
\* by any logger call at any level and threshold, not when the log file
\* cannot be appended to
C8_NeverWritesStdout ==
    /\ io.stdout = <<>>
    /\ \A i \in DOMAIN logCalls : logCalls[i].stdout = 0

C8_Witness ==
    /\ pc = "running"
    /\ Truthy(logger.appLogFile)
    /\ Len(io.stderr) > 0 /\ Len(io.file) > 0
    /\ \E i \in DOMAIN logCalls : ~logCalls[i].writable /\ logCalls[i].stderr = 1
    /\ \E i \in DOMAIN logCalls : logCalls[i].level = "debug" /\ logCalls[i].file = 1

\* the order debug < info < warn < error
LevelRank == [debug |-> 1, info |-> 2, warn |-> 3, error |-> 4]

\* C9 as stated: with a log file configured no logger line goes to stderr
\* and every emitted line is in the file; without one every line goes to stderr
C9_SinkFixedByConfiguration ==
    \A i \in DOMAIN logCalls :
        LET c == logCalls[i] IN
        /\ c.file + c.stderr <= 1
        /\ IF Truthy(logger.appLogFile) THEN c.stderr = 0 ELSE c.file = 0

\* C9 amended: a line goes to exactly one sink, never to both: to the
\* configured log file when the append succeeds, to stderr when no log file
\* (or an empty path) is configured or when the append fails
C9_OneSinkPerLine ==
    \A i \in DOMAIN logCalls :
        LET c == logCalls[i] IN
        /\ c.file + c.stderr <= 1
        /\ c.stdout = 0
        /\ LevelRank[c.level] >= LevelRank[config.logLevel] => c.file + c.stderr = 1
        /\ c.file = 1 => Truthy(logger.appLogFile) /\ c.writable
        /\ c.stderr = 1 => ~Truthy(logger.appLogFile) \/ ~c.writable
        /\ ~Truthy(logger.appLogFile) => io.file = <<>>

C9_Witness ==
    /\ Truthy(logger.appLogFile)
    /\ \E i, j \in DOMAIN logCalls :
          /\ logCalls[i].file = 1 /\ logCalls[i].stderr = 0
          /\ logCalls[j].stderr = 1 /\ logCalls[j].file = 0 /\ ~logCalls[j].writable

\* C10: a logger call at level L writes one line if L is at or above the
\* configured threshold and nothing if L is below it
C10_ThresholdFilters ==
    \A i \in DOMAIN logCalls :
        LET c == logCalls[i] IN
        IF LevelRank[c.level] >= LevelRank[config.logLevel]
        THEN c.file + c.stderr + c.stdout = 1
        ELSE c.file + c.stderr + c.stdout = 0

C10_Witness ==
    /\ config.logLevel = "warn"
    /\ \E i, j, k \in DOMAIN logCalls :
          /\ logCalls[i].level = "info" /\ logCalls[i].file + logCalls[i].stderr = 0
          /\ logCalls[j].level = "warn" /\ logCalls[j].file + logCalls[j].stderr = 1
          /\ logCalls[k].level = "error" /\ logCalls[k].file + logCalls[k].stderr = 1

\* position of the first occurrence of a step in the startup trace, 0 if none
StepAt(step) ==
    IF \E i \in DOMAIN startup : startup[i] = step
    THEN CHOOSE i \in DOMAIN startup : startup[i] = step /\ \A j \in 1..(i-1) : startup[j] # step
    ELSE 0

\* C11: loadConfig is the first startup step; the tools and the resources
\* are registered before the transport connects; when the configuration is
\* invalid the process exits with code 1, nothing was registered and the
\* connection never opened
C11_ConfigFirstRegisterBeforeConnect ==
    /\ startup # <<>> => startup[1] = "loadConfig"
    /\ StepAt("connect") # 0 =>
          /\ StepAt("registerTools") \in 1..(StepAt("connect") - 1)
          /\ StepAt("registerResources") \in 1..(StepAt("connect") - 1)
          /\ registered = toolDefs
    /\ pc \in {"connecting", "running"} => StepAt("connect") # 0 /\ configViolations = {}
    /\ (pc # "init" /\ configViolations # {}) =>
          /\ pc = "exited" /\ exitCode = 1
          /\ registered = <<>> /\ listed = <<>>
          /\ StepAt("registerTools") = 0 /\ StepAt("connect") = 0

C11_Witness ==
    /\ pc = "exited" /\ exitCode = 1
    /\ configViolations = {"unleash.pat", "server.logLevel"}
    /\ startup = <<"loadConfig">>

HasDuplicate(seq) == \E i, j \in DOMAIN seq : i < j /\ seq[i] = seq[j]

\* C12: a tool definition whose name is already registered makes startup
\* fail: the process exits with code 1, the transport never connects and no
\* invocation can begin; whenever the server is connected the registered
\* names are pairwise distinct
C12_DuplicateNameIsFatal ==
    /\ pc \in {"connecting", "running"} => ~HasDuplicate(registered) /\ registered = toolDefs
    /\ (pc # "init" /\ configViolations = {} /\ HasDuplicate(toolDefs)) =>
          /\ pc = "exited" /\ exitCode = 1
          /\ StepAt("connect") = 0
          /\ ~HasDuplicate(registered)
          /\ ~CanBegin /\ listed = <<>>

C12_Witness ==
    /\ pc = "exited" /\ exitCode = 1
    /\ configViolations = {}
    /\ toolDefs[Len(toolDefs)] = "create_flag"
    /\ Len(registered) = Len(toolDefs) - 1
    /\ startup[Len(startup)] = "registerTools"

\* the issues the tool's schema reports for the invocation's arguments
SchemaIssues(inv) ==
    IF inv.tool = "get_flag_state" THEN getFlagStateSchema(inv.args)
    ELSE toggleFlagEnvironmentSchema(inv.args)

\* neither the projectId argument nor the configured default is non-empty
NoProject == ~Truthy(cur.args.projectId) /\ ~Truthy(config.defaultProject)

MissingConfigurationResult ==
    /\ cur.outcome = "returned" /\ cur.result.isError
    /\ cur.result.error.code = "MissingConfiguration"
    /\ "Project ID" \in cur.result.error.message
    /\ cur.result.error.hint = "UNLEASH_DEFAULT_PROJECT"
    /\ cur.thrown = JsError("Error", "ProjectIdRequired")
    /\ cur.remoteCalls = 0

\* C14 as stated: every finished invocation without a non-empty projectId
\* argument and without a non-empty default project returned the
\* MissingConfiguration failure
C14_NoProjectAlwaysMissingConfiguration ==
    (cur.pc = "done" /\ NoProject) => MissingConfigurationResult

\* C14: an invocation whose arguments satisfy the tool's schema and that has
\* neither a non-empty projectId argument nor a non-empty default project
\* returns the MissingConfiguration failure naming the project ID, with the
\* hint UNLEASH_DEFAULT_PROJECT; without a project no remote call is made,
\* whatever the arguments
C14_NoProjectValidArgsMissingConfiguration ==
    /\ (cur.pc = "done" /\ NoProject /\ SchemaIssues(cur) = {}) => MissingConfigurationResult
    /\ (cur.pc # "none" /\ NoProject) => cur.remoteCalls = 0 /\ cur.pc \in {"begin", "done"}

C14_Witness ==
    /\ cur.pc = "done" /\ cur.tool = "toggle_flag_environment"
    /\ cur.args.projectId = "" /\ config.defaultProject = ""
    /\ SchemaIssues(cur) = {}
    /\ cur.result.error.code = "MissingConfiguration"

ErrorKinds == {"InvalidInput", "MissingConfiguration", "RemoteError", "Unknown"}

\* C15: every failure result has isError = true, the text 'Error: <message>'
\* followed by the 'Hint: <hint>' suffix exactly when the normalized error
\* has a hint, and structuredContent with success = false and the
\* normalized error with its kind; every caught error gives such a result
C15_FailureResultShape ==
    /\ (cur.pc = "done" /\ cur.result.isError) =>
          /\ ~cur.result.success
          /\ cur.result.error = normalizeError(cur.thrown)
          /\ cur.result.error.code \in ErrorKinds
          /\ cur.result.text.prefix = "Error: "
          /\ cur.result.text.message = cur.result.error.message
          /\ cur.result.hintSuffix <=> cur.result.error.hint # Undefined
          /\ cur.result.text.suffix = (IF cur.result.error.hint # Undefined
                                       THEN "\n\nHint: " ELSE "")
          /\ cur.result.text.hint = cur.result.error.hint
    /\ (cur.pc = "done" /\ cur.thrown # NoThrown) => cur.result.isError

C15_Witness ==
    /\ cur.pc = "done" /\ cur.result.isError
    /\ cur.result.error.code = "RemoteError"
    /\ cur.result.error.hint = "credentials"
    /\ cur.result.text.suffix = "\n\nHint: "
    /\ invCount = 2

\* C17: an invocation makes at most one remote call; when the remote call
\* fails the invocation ends with the RemoteError failure after that single
\* call, and an invocation that fails validation or project resolution ends
\* with its failure after no remote call; each failure is handled once
C17_AtMostOneRemoteCall ==
    /\ cur.remoteCalls <= 1
    /\ (cur.pc = "done" /\ cur.remote.kind = "throw") =>
          /\ cur.remoteCalls = 1 /\ cur.errorCalls = 1
          /\ cur.result.isError /\ cur.result.error.code = "RemoteError"
    /\ (cur.pc = "done" /\ cur.thrown.kind \in {"ZodError", "Error"}) =>
          /\ cur.remoteCalls = 0 /\ cur.errorCalls = 1
          /\ cur.result.isError
    /\ (cur.pc = "remote") => cur.remoteCalls = 1 /\ cur.thrown = NoThrown

C17_Witness ==
    /\ cur.pc = "done" /\ cur.tool = "get_flag_state"
    /\ cur.remote.kind = "throw" /\ cur.remote.status = "404"
    /\ cur.remoteCalls = 1
    /\ cur.result.error.code = "RemoteError"

C16_EmptyPlaceholderRejected ==
    /\ (res.pc # "none" /\ res.reader # "unleash-projects-filtered"
           /\ ~Truthy(res.projectId)) =>
          res.pc = "done" /\ res.outcome = "threw" /\ res.fetched = <<>>
    /\ (res.pc # "none" /\ res.reader = "unleash-feature-flag" /\ ~Truthy(res.flagName)) =>
          res.pc = "done" /\ res.outcome = "threw" /\ res.fetched = <<>>
    /\ \A i \in DOMAIN res.fetched :
          /\ res.reader # "unleash-projects-filtered" => Truthy(res.fetched[i].parentId)
          /\ res.reader = "unleash-feature-flag" => Truthy(res.fetched[i].itemId)
    /\ Len(res.fetched) <= 1

C16_Witness ==
    /\ res.pc = "done" /\ res.reader = "unleash-feature-flag"
    /\ res.projectId = "proj" /\ res.flagName = ""
    /\ res.outcome = "threw"
    /\ res.error = "Flag name missing from feature flag URI"
    /\ res.count = 2

\* the chunks written to a channel, in the order of the writes
ChunksTo(channel) ==
    LET sel == SelectSeq(stdio.writes, LAMBDA w : w.channel = channel) IN
    [i \in 1..Len(sel) |-> sel[i].chunk]

\* C18: with MCP_STDIO_LOG_FILE unset or empty enableStdioLogging patches
\* nothing, adds no listener and no line reaches a log file; in every case
\* the chunks that reached stdout and stderr are exactly the chunks written
\* to them, once each and in order, and each write returned what the
\* original writer returned, whether or not the log file could be appended
C18_StdioLoggingPassive ==
    /\ ~Truthy(stdio.logFile) =>
          stdio.depth = 0 /\ stdio.listeners = 0 /\ stdio.tee = <<>>
    /\ stdio.out = ChunksTo("stdout")
    /\ stdio.err = ChunksTo("stderr")
    /\ stdio.returns = [i \in 1..Len(stdio.writes) |-> stdio.writes[i].ret]

C18_Witness ==
    /\ Truthy(stdio.logFile) /\ stdio.depth = 1
    /\ Len(stdio.writes) = MaxWrites
    /\ stdio.tee # <<>> /\ Len(stdio.tee) < Len(stdio.writes)
    /\ stdio.out # <<>> /\ stdio.err # <<>>
    /\ \E i \in DOMAIN stdio.returns : ~stdio.returns[i]

\* C13: once the server runs, the registered tools are the nine tools of
\* index.ts, a tools/list answer is exactly that list and contains
\* create_flag, and neither changes while invocations run and finish
C13_ListToolsStable ==
    LET nine == <<"create_flag", "evaluate_change", "detect_flag", "wrap_change",
                  "cleanup_flag", "set_flag_rollout", "get_flag_state",
                  "toggle_flag_environment", "remove_flag_strategy">> IN
    /\ pc = "running" => registered = nine
    /\ listed # <<>> =>
          /\ listed = nine
          /\ \E i \in DOMAIN listed : listed[i] = "create_flag"
    /\ pc # "running" => listed = <<>>

C13_Witness ==
    /\ listed # <<>> /\ listed = registered
    /\ invCount = MaxInvocations
    /\ cur.pc = "done" /\ cur.result.success
    /\ parked # <<>>

\* what an invocation's own arguments, its own remote response and the
\* configuration fixed at startup determine as its result
ExpectedResult(inv) ==
    LET issues == SchemaIssues(inv)
        project == ensureProjectId(inv.args.projectId, env.UNLEASH_DEFAULT_PROJECT)
        failure(error) == handleToolError(error, inv.tool, fileWritable, io).result
    IN CASE issues # {} -> failure(ZodError(issues))
         [] issues = {} /\ project.threw -> failure(JsError("Error", "ProjectIdRequired"))
         [] issues = {} /\ ~project.threw /\ inv.remote.kind = "throw" ->
               failure(JsError("RemoteError", inv.remote.status))
         [] issues = {} /\ ~project.threw /\ inv.remote.kind = "malformed" ->
               failure(JsError("TypeError", "feature"))
         [] OTHER ->
               [isError |-> FALSE, success |-> TRUE, error |-> NoError,
                hintSuffix |-> FALSE, text |-> NoText, projectId |-> project.value,
                environments |->
                    IF inv.tool = "toggle_flag_environment" \/ Truthy(inv.args.environment)
                    THEN {e \in inv.remote.environments :
                            toLowerCase(e) = toLowerCase(inv.args.environment)}
                    ELSE inv.remote.environments]

\* the invocations in flight: the running one and the suspended ones
InFlight == {cur} \cup {parked[i] : i \in DOMAIN parked}

\* C20: under every interleaving of invocations at their awaits the
\* context built by main() stays what startup made it, every finished
\* invocation's result is the one its own arguments and remote response
\* determine, every suspended invocation still holds the project resolved
\* from its own arguments, and every notification sent carries the token of
\* an invocation that was started with that token
C20_InvocationsIndependent ==
    /\ pc = "running" =>
          /\ config = loadConfig
          /\ logger = createLogger(loadConfig.logLevel)
          /\ registered = toolDefs
    /\ \A inv \in InFlight :
          /\ inv.pc = "done" => inv.outcome = "returned" /\ inv.result = ExpectedResult(inv)
          /\ inv.pc \in {"await0", "remote", "await100"} =>
                inv.projectId =
                    ensureProjectId(inv.args.projectId, env.UNLEASH_DEFAULT_PROJECT).value
    /\ \A i \in DOMAIN sent :
          sent[i].notification.method = "notifications/progress" =>
              \E inv \in InFlight : sent[i].notification.progressToken = inv.progressToken

C20_Witness ==
    /\ Len(parked) = 1 /\ parked[1].pc = "remote"
    /\ parked[1].tool = "toggle_flag_environment" /\ parked[1].projectId = "p2"
    /\ cur.pc = "done" /\ cur.tool = "get_flag_state"
    /\ cur.result.success /\ cur.result.projectId = "p1"
    /\ cur.progressToken = "tok"

\* the project IDs a caller or the configuration can supply
ProjectIdValues == {Undefined, "", "p1", "proj"}

\* C21: ensureProjectId returns the provided ID whenever it is non-empty,
\* whatever the default; returns the default only when the provided ID is
\* absent or empty and the default is non-empty; throws otherwise; so the
\* project an invocation holds after resolution is never empty or
\* undefined, and every remote call is made with that non-empty project
C21_ResolvedProjectNeverEmpty ==
    /\ \A p \in ProjectIdValues, d \in ProjectIdValues :
          LET r == ensureProjectId(p, d) IN
          /\ Truthy(p) => ~r.threw /\ r.value = p
          /\ (~Truthy(p) /\ Truthy(d)) => ~r.threw /\ r.value = d
          /\ (~Truthy(p) /\ ~Truthy(d)) => r.threw
          /\ ~r.threw => Truthy(r.value)
    /\ cur.pc \in {"await0", "remote", "await100"} =>
          /\ Truthy(cur.projectId)
          /\ Truthy(cur.args.projectId) => cur.projectId = cur.args.projectId
          /\ ~Truthy(cur.args.projectId) =>
                cur.projectId = config.defaultProject /\ Truthy(config.defaultProject)
    /\ cur.thrown = JsError("Error", "ProjectIdRequired") => NoProject /\ cur.remoteCalls = 0
    /\ (cur.pc = "done" /\ SchemaIssues(cur) = {} /\ NoProject) =>
          cur.thrown = JsError("Error", "ProjectIdRequired")
    /\ Len(cur.remoteProjectIds) = cur.remoteCalls
    /\ \A i \in DOMAIN cur.remoteProjectIds :
          /\ Truthy(cur.remoteProjectIds[i])
          /\ cur.remoteProjectIds[i] =
                (IF Truthy(cur.args.projectId) THEN cur.args.projectId
                 ELSE config.defaultProject)

C21_Witness ==
    /\ cur.pc = "remote" /\ cur.tool = "get_flag_state"
    /\ cur.args.projectId = "" /\ config.defaultProject = "proj"
    /\ cur.remoteProjectIds = <<"proj">>

====
